---- MODULE Spec2Model ----
(***************************************************************************)
(* State-machine model of the UMS agent service:                           *)
(*   src/agent/conversation_manager.py  (ConversationManager)              *)
(*   src/agent/app.py                   (lifespan, HTTP handlers)          *)
(*   src/agent/prompts.py               (SYSTEM_PROMPT)                    *)
(* Every request runs as one asyncio task; a task is suspended at every    *)
(* `await`, so each action below is the code between two awaits together   *)
(* with the effect of the awaited Redis command.                           *)
(***************************************************************************)
EXTENDS Integers, Sequences, FiniteSets, TLC

\* ------------------------------------------------------------------ bounds
\* Requests the model serves in one behaviour.
MaxRequests == 3

\* Round-trip limit of the agent loop (spec 4.3, "a small constant").
MaxRounds == 2

\* Request tasks that can be in flight at once.
Tasks == {1, 2}
\* Pool of identifiers uuid4 draws from (integers stand for the uuid strings,
\* ordered as Redis orders members lexicographically).
ConvIds == {1, 2}
Titles == {"title"}
\* Texts of user messages: the n-th request carries text n (the code never
\* looks into the text, so only its identity matters).
UserContents == 1..MaxRequests

\* Python None where a dict or an object is expected, and where a string is.
None == [none |-> TRUE]
Null == "null"
NoScore == -1

VARIABLES
    store,      \* Redis keys "conversation:<id>": id -> record or None
    index,      \* Redis sorted set "conversations:list": id -> score or NoScore
    now,        \* last reading of datetime.now(UTC)
    allocated,  \* ids uuid4 has produced so far
    requests,   \* requests accepted so far
    op,         \* per task: the handler it runs ("idle" when free)
    pc,         \* per task: position inside the handler
    cid,        \* per task: conversation_id argument
    stream,     \* per task: ChatRequest.stream
    messages,   \* per task: in-memory list[Message] of the turn
    conv,       \* per task: local `conversation` dict
    rounds,     \* per task: model round-trips of the agent loop
    chunks,     \* per task: fragments the gateway streamed this turn
    inflight,   \* per task: event yielded by the generator, not yet sent
    delivered,  \* per task: events the StreamingResponse sent to the client
    streamEnd,  \* per task: how the event stream ended
    err,        \* per task: exception raised out of the handler
    ret,        \* per task: value returned by the manager call
    listIds,    \* per task: ids list_conversations still has to read
    userMsg,    \* per task: the user_message argument of chat
    loaded,     \* per task: persisted messages chat() loaded
    appended,   \* per task: messages the agent loop appended this turn
    wrote,      \* per task: Redis writes the current call has made
    phase,      \* position of lifespan() (app.py)
    ums_tools,  \* tool names the UMS client enumerated
    duckduckgo_tools,       \* tool names the DuckDuckGo client enumerated
    tools,                  \* lifespan's `tools` list
    tool_name_client_map    \* lifespan's name -> client dict

storeVars == <<store, index, now, allocated>>
registryVars == <<phase, ums_tools, duckduckgo_tools, tools,
                  tool_name_client_map>>
vars == <<store, index, now, allocated, requests, op, pc, cid, stream,
          messages, conv, rounds, chunks, inflight, delivered, streamEnd, err,
          ret, listIds, userMsg, loaded, appended, wrote, phase, ums_tools,
          duckduckgo_tools, tools, tool_name_client_map>>

\* ---------------------------------------------------------------- messages
\* Role enum members and their serialized values (Message.model_dump / Message(**d)).
Roles == {"SYSTEM", "USER", "ASSISTANT", "TOOL"}

RoleValue(r) ==
    CASE r = "SYSTEM" -> "system"
      [] r = "USER" -> "user"
      [] r = "ASSISTANT" -> "assistant"
      [] r = "TOOL" -> "tool"

RoleOf(v) == CHOOSE r \in Roles : RoleValue(r) = v

Message(role, content, toolCalls, toolCallId) ==
    [role |-> role, content |-> content, tool_calls |-> toolCalls,
     tool_call_id |-> toolCallId]

SYSTEM_PROMPT == "SYSTEM_PROMPT"

SystemMessage == Message("SYSTEM", SYSTEM_PROMPT, <<>>, Null)

UserMessage(content) == Message("USER", content, <<>>, Null)

\* msg.model_dump(): the dict that json.dumps writes into the record.
ModelDump(m) ==
    [role |-> RoleValue(m.role), content |-> m.content,
     tool_calls |-> m.tool_calls, tool_call_id |-> m.tool_call_id]

MessageFromDictNoLink(d) ==
    [role |-> RoleOf(d.role), content |-> d.content,
     tool_calls |-> d.tool_calls, tool_call_id |-> Null]

\* Message(**msg_data): the typed message rebuilt from a stored dict.
MessageFromDict(d) ==
    [role |-> RoleOf(d.role), content |-> d.content,
     tool_calls |-> d.tool_calls, tool_call_id |-> d.tool_call_id]

DumpAll(ms) == [i \in 1..Len(ms) |-> ModelDump(ms[i])]

LoadAll(ds) == [i \in 1..Len(ds) |-> MessageFromDict(ds[i])]

\* ------------------------------------------------------------------- redis
\* redis.get: the stored value, None when the key is absent.
RedisGet(id) == store[id]

\* ZREVRANGE key 0 -1: members by descending score, ties by descending member.
Before(a, b) ==
    \/ index[a] > index[b]
    \/ index[a] = index[b] /\ a > b

Indexed == {i \in ConvIds : index[i] # NoScore}

ZRevRange ==
    CHOOSE s \in [1..Cardinality(Indexed) -> Indexed] :
        /\ \A i, j \in 1..Cardinality(Indexed) : i < j => Before(s[i], s[j])

\* The summary dict list_conversations builds from a record.
Summary(c) ==
    [id |-> c.id, title |-> c.title, created_at |-> c.created_at,
     updated_at |-> c.updated_at, message_count |-> Len(c.messages)]

\* -------------------------------------------------------------------- init
Idle(t) ==
    /\ op' = [op EXCEPT ![t] = "idle"]
    /\ pc' = [pc EXCEPT ![t] = "idle"]
    /\ cid' = [cid EXCEPT ![t] = 0]
    /\ stream' = [stream EXCEPT ![t] = FALSE]
    /\ messages' = [messages EXCEPT ![t] = <<>>]
    /\ conv' = [conv EXCEPT ![t] = None]
    /\ rounds' = [rounds EXCEPT ![t] = 0]
    /\ chunks' = [chunks EXCEPT ![t] = 0]
    /\ inflight' = [inflight EXCEPT ![t] = None]
    /\ delivered' = [delivered EXCEPT ![t] = <<>>]
    /\ streamEnd' = [streamEnd EXCEPT ![t] = "none"]
    /\ err' = [err EXCEPT ![t] = "none"]
    /\ ret' = [ret EXCEPT ![t] = None]
    /\ listIds' = [listIds EXCEPT ![t] = <<>>]
    /\ userMsg' = [userMsg EXCEPT ![t] = None]
    /\ loaded' = [loaded EXCEPT ![t] = <<>>]
    /\ appended' = [appended EXCEPT ![t] = <<>>]
    /\ wrote' = [wrote EXCEPT ![t] = 0]

\* Redis is empty and no request has been accepted.
InitServing ==
    /\ store = [i \in ConvIds |-> None]
    /\ index = [i \in ConvIds |-> NoScore]
    /\ now = 0
    /\ allocated = {}
    /\ requests = 0
    /\ op = [t \in Tasks |-> "idle"]
    /\ pc = [t \in Tasks |-> "idle"]
    /\ cid = [t \in Tasks |-> 0]
    /\ stream = [t \in Tasks |-> FALSE]
    /\ messages = [t \in Tasks |-> <<>>]
    /\ conv = [t \in Tasks |-> None]
    /\ rounds = [t \in Tasks |-> 0]
    /\ chunks = [t \in Tasks |-> 0]
    /\ inflight = [t \in Tasks |-> None]
    /\ delivered = [t \in Tasks |-> <<>>]
    /\ streamEnd = [t \in Tasks |-> "none"]
    /\ err = [t \in Tasks |-> "none"]
    /\ ret = [t \in Tasks |-> None]
    /\ listIds = [t \in Tasks |-> <<>>]
    /\ userMsg = [t \in Tasks |-> None]
    /\ loaded = [t \in Tasks |-> <<>>]
    /\ appended = [t \in Tasks |-> <<>>]
    /\ wrote = [t \in Tasks |-> 0]

\* ---------------------------------------------------------------- lifespan
\* Names the tool servers may offer, and the clients that own them.
ToolNames == {"search", "get_user", "fetch_content"}
NoClient == "none"
UmsClient == "ums_mcp_client"
DuckDuckGoClient == "duckduckgo_mcp_client"

\* What get_tools() may return: a list of distinct tool names, here of at most
\* two of them.
ToolLists ==
    {s \in UNION {[1..n -> ToolNames] : n \in 0..2} :
        \A i, j \in 1..Len(s) : i # j => s[i] # s[j]}

Range(s) == {s[i] : i \in 1..Len(s)}

\* app.py 58-60 and 70-72: every enumerated tool is appended to `tools` and
\* its name is bound to the client, whatever the name was bound to before.
RegisterTools(map, names, client) ==
    [n \in ToolNames |-> IF n \in Range(names) THEN client ELSE map[n]]

\* The registry of the running service: app.py 54-83 with the UMS client
\* offering get_user and the DuckDuckGo client offering search.
ServingRegistry ==
    /\ phase = "serving"
    /\ ums_tools = <<"get_user">>
    /\ duckduckgo_tools = <<"search">>
    /\ tools = <<"get_user", "search">>
    /\ tool_name_client_map =
          [n \in ToolNames |->
              CASE n = "get_user" -> UmsClient
                [] n = "search" -> DuckDuckGoClient
                [] OTHER -> NoClient]

Init == InitServing /\ ServingRegistry

\* app.py 54-55: lifespan() starts with an empty list and an empty dict.
InitStartup ==
    /\ InitServing
    /\ phase = "start"
    /\ ums_tools = <<>>
    /\ duckduckgo_tools = <<>>
    /\ tools = <<>>
    /\ tool_name_client_map = [n \in ToolNames |-> NoClient]

servingVars == <<store, index, now, allocated, requests, op, pc, cid, stream,
                 messages, conv, rounds, chunks, inflight, delivered,
                 streamEnd, err, ret, listIds, userMsg, loaded, appended,
                 wrote>>

\* app.py 56: HttpMCPClient.create for the UMS server.
UmsCreate ==
    /\ phase = "start"
    /\ phase' = "ums_created"
    /\ UNCHANGED <<servingVars, ums_tools, duckduckgo_tools, tools,
                   tool_name_client_map>>

\* app.py 57-60: get_tools of the UMS client and the loop that registers them.
UmsRegister ==
    /\ phase = "ums_created"
    /\ \E names \in ToolLists :
        /\ ums_tools' = names
        /\ tools' = tools \o names
        /\ tool_name_client_map' =
              RegisterTools(tool_name_client_map, names, UmsClient)
    /\ phase' = "ums_registered"
    /\ UNCHANGED <<servingVars, duckduckgo_tools>>

\* app.py 68: StdioMCPClient.create for the DuckDuckGo image.
DuckDuckGoCreate ==
    /\ phase = "ums_registered"
    /\ phase' = "duckduckgo_created"
    /\ UNCHANGED <<servingVars, ums_tools, duckduckgo_tools, tools,
                   tool_name_client_map>>

\* app.py 69-72: get_tools of the DuckDuckGo client and its registration loop.
DuckDuckGoRegister ==
    /\ phase = "duckduckgo_created"
    /\ \E names \in ToolLists :
        /\ duckduckgo_tools' = names
        /\ tools' = tools \o names
        /\ tool_name_client_map' =
              RegisterTools(tool_name_client_map, names, DuckDuckGoClient)
    /\ phase' = "duckduckgo_registered"
    /\ UNCHANGED <<servingVars, ums_tools>>

\* app.py 74-85: DialClient, Redis ping, ConversationManager; the service runs.
StartServing ==
    /\ phase = "duckduckgo_registered"
    /\ phase' = "serving"
    /\ UNCHANGED <<servingVars, ums_tools, duckduckgo_tools, tools,
                   tool_name_client_map>>

NextStartup ==
    \/ UmsCreate
    \/ UmsRegister
    \/ DuckDuckGoCreate
    \/ DuckDuckGoRegister
    \/ StartServing

SpecStartup == InitStartup /\ [][NextStartup]_vars

\* app.py 156-223: the server hands a request to a handler, which runs as a
\* task of its own. Tasks are interchangeable, so the lowest free one takes it.
Accept(t) ==
    /\ phase = "serving"
    /\ pc[t] = "idle"
    /\ \A u \in Tasks : u < t => pc[u] # "idle"
    /\ requests < MaxRequests
    /\ requests' = requests + 1

\* ------------------------------------------------------ create_conversation
NewConversationUntitled(id, title, time) ==
    [id |-> id, title |-> Null, messages |-> <<>>,
     created_at |-> time, updated_at |-> time]

\* conversation_manager.py 49-55: the record of a new conversation.
NewConversation(id, title, time) ==
    [id |-> id, title |-> title, messages |-> <<>>,
     created_at |-> time, updated_at |-> time]

\* conversation_manager.py 47-56: uuid4, isoformat timestamp, record, redis.set.
CreateSet(t) ==
    /\ UNCHANGED registryVars
    /\ Accept(t)
    /\ \E id \in ConvIds \ allocated, title \in Titles :
        LET c == NewConversation(id, title, now + 1)
        IN /\ allocated' = allocated \cup {id}
           /\ now' = now + 1
           /\ store' = [store EXCEPT ![id] = c]
           /\ conv' = [conv EXCEPT ![t] = c]
           /\ cid' = [cid EXCEPT ![t] = id]
    /\ op' = [op EXCEPT ![t] = "create"]
    /\ pc' = [pc EXCEPT ![t] = "create_zadd"]
    /\ wrote' = [wrote EXCEPT ![t] = 1]
    /\ UNCHANGED <<index, stream, messages, rounds, chunks, inflight, delivered,
                   streamEnd, err, ret, listIds, userMsg, loaded, appended>>

\* conversation_manager.py 57-59: redis.zadd with a fresh timestamp, return.
CreateZadd(t) ==
    /\ UNCHANGED registryVars
    /\ UNCHANGED requests
    /\ pc[t] = "create_zadd"
    /\ now' = now + 1
    /\ index' = [index EXCEPT ![cid[t]] = now + 1]
    /\ ret' = [ret EXCEPT ![t] = [kind |-> "conversation", value |-> conv[t]]]
    /\ pc' = [pc EXCEPT ![t] = "done"]
    /\ wrote' = [wrote EXCEPT ![t] = wrote[t] + 1]
    /\ UNCHANGED <<store, allocated, op, cid, stream, messages, conv, rounds,
                   chunks, inflight, delivered, streamEnd, err, listIds,
                   userMsg, loaded, appended>>

\* --------------------------------------------------------- get_conversation
\* conversation_manager.py 99-103.
GetConversation(t) ==
    /\ UNCHANGED registryVars
    /\ Accept(t)
    /\ \E id \in ConvIds :
        /\ cid' = [cid EXCEPT ![t] = id]
        /\ ret' = [ret EXCEPT ![t] = [kind |-> "conversation", value |-> RedisGet(id)]]
    /\ op' = [op EXCEPT ![t] = "get"]
    /\ pc' = [pc EXCEPT ![t] = "done"]
    /\ UNCHANGED <<storeVars, stream, messages, conv, rounds, chunks, inflight,
                   delivered, streamEnd, err, listIds, userMsg, loaded,
                   appended, wrote>>

\* ------------------------------------------------------ delete_conversation
DeletedAlways(id) == TRUE

\* conversation_manager.py 110-111: redis.delete returns the number of keys it
\* removed, and delete_conversation returns whether that is more than none.
Deleted(id) == store[id] # None

\* conversation_manager.py 110-111: redis.delete of the record key only.
DeleteConversation(t) ==
    /\ UNCHANGED registryVars
    /\ Accept(t)
    /\ \E id \in ConvIds :
        /\ cid' = [cid EXCEPT ![t] = id]
        /\ ret' = [ret EXCEPT ![t] = [kind |-> "bool", value |-> Deleted(id)]]
        /\ store' = [store EXCEPT ![id] = None]
        /\ wrote' = [wrote EXCEPT ![t] = IF store[id] # None THEN 1 ELSE 0]
    /\ op' = [op EXCEPT ![t] = "delete"]
    /\ pc' = [pc EXCEPT ![t] = "done"]
    /\ UNCHANGED <<index, now, allocated, stream, messages, conv, rounds,
                   chunks, inflight, delivered, streamEnd, err, listIds,
                   userMsg, loaded, appended>>

\* ------------------------------------------------------- list_conversations
\* conversation_manager.py 77-78: zrevrange, empty result list.
ListBegin(t) ==
    /\ UNCHANGED registryVars
    /\ Accept(t)
    /\ op' = [op EXCEPT ![t] = "list"]
    /\ listIds' = [listIds EXCEPT ![t] = ZRevRange]
    /\ ret' = [ret EXCEPT ![t] = [kind |-> "list", value |-> <<>>]]
    /\ pc' = [pc EXCEPT ![t] = IF ZRevRange = <<>> THEN "done" ELSE "list_get"]
    /\ UNCHANGED <<storeVars, cid, stream, messages, conv, rounds, chunks,
                   inflight, delivered, streamEnd, err, userMsg, loaded,
                   appended, wrote>>

ListedNothing(conversations, data) == conversations

\* conversation_manager.py 81-89: a record that is present adds its summary to
\* `conversations`; an id whose record is missing adds nothing.
Listed(conversations, data) ==
    IF data # None THEN Append(conversations, Summary(data)) ELSE conversations

\* conversation_manager.py 79-90: one iteration of the loop (one redis.get).
ListGet(t) ==
    /\ UNCHANGED registryVars
    /\ UNCHANGED requests
    /\ pc[t] = "list_get"
    /\ LET id == Head(listIds[t])
           data == RedisGet(id)
           rest == Tail(listIds[t])
       IN /\ ret' = [ret EXCEPT ![t] =
                        [kind |-> "list", value |-> Listed(ret[t].value, data)]]
          /\ listIds' = [listIds EXCEPT ![t] = rest]
          /\ pc' = [pc EXCEPT ![t] = IF rest = <<>> THEN "done" ELSE "list_get"]
    /\ UNCHANGED <<storeVars, op, cid, stream, messages, conv, rounds, chunks,
                   inflight, delivered, streamEnd, err, userMsg, loaded,
                   appended, wrote>>

\* --------------------------------------------------------------- agent loop
\* The agent loop (DialClient.response / DialClient.stream_response) works on
\* the caller's list in place: what it appends is appended to `messages`.
ToolResults == {"result"}

AssistantToolCalls == Message("ASSISTANT", Null, <<"call">>, Null)

AssistantFinal == Message("ASSISTANT", "answer", <<>>, Null)

ToolMessage(content) == Message("TOOL", content, <<>>, "call")

LoopAppend(t, m) ==
    /\ messages' = [messages EXCEPT ![t] = Append(@, m)]
    /\ appended' = [appended EXCEPT ![t] = Append(@, m)]

IdEventWithoutId(id) == [type |-> "conversation_id", conversation_id |-> 0]

\* conversation_manager.py 157: the "data: {conversation_id}" frame.
IdEvent(id) == [type |-> "conversation_id", conversation_id |-> id]

\* The text the gateway streams during a turn, cut into its fragments.
Fragments == <<"answer">>

\* conversation_manager.py 158-159: a fragment, passed on as it comes.
ChunkEvent(i) == [type |-> "chunk", text |-> Fragments[i]]

\* --------------------------------------------------------------------- chat
SeededNoPrompt(persisted) == persisted

SeededAlways(persisted) == <<SystemMessage>> \o persisted

\* conversation_manager.py 136-137: an empty history gets the system prompt.
Seeded(persisted) ==
    IF persisted = <<>> THEN <<SystemMessage>> ELSE persisted

OnNotFoundLate(t, s) ==
    /\ err' = [err EXCEPT ![t] = "ValueError"]
    /\ pc' = [pc EXCEPT ![t] = IF s THEN "stream_start" ELSE "failed"]
    /\ UNCHANGED <<messages, loaded>>

\* conversation_manager.py 133-134: no record, so chat() raises before it
\* builds anything; with stream=True too, as chat() is a coroutine that has
\* not yet created the generator.
OnNotFound(t, s) ==
    /\ err' = [err EXCEPT ![t] = "ValueError"]
    /\ pc' = [pc EXCEPT ![t] = "failed"]
    /\ UNCHANGED <<messages, loaded>>

\* conversation_manager.py 131-142: load, not-found error, rebuild the typed
\* messages, seed the system prompt, append the user message, pick the path.
ChatLoad(t) ==
    /\ UNCHANGED registryVars
    /\ Accept(t)
    /\ \E id \in ConvIds, s \in BOOLEAN,
          content \in {c \in UserContents : c = requests + 1} :
        LET conversation == RedisGet(id)
        IN /\ cid' = [cid EXCEPT ![t] = id]
           /\ stream' = [stream EXCEPT ![t] = s]
           /\ userMsg' = [userMsg EXCEPT ![t] = UserMessage(content)]
           /\ IF conversation = None
              THEN OnNotFound(t, s)
              ELSE /\ messages' = [messages EXCEPT ![t] =
                          Append(Seeded(LoadAll(conversation.messages)),
                                 UserMessage(content))]
                   /\ loaded' = [loaded EXCEPT ![t] = conversation.messages]
                   /\ pc' = [pc EXCEPT ![t] =
                                IF s THEN "stream_start" ELSE "loop_model"]
                   /\ UNCHANGED err
    /\ op' = [op EXCEPT ![t] = "chat"]
    /\ UNCHANGED <<storeVars, conv, rounds, chunks, inflight, delivered,
                   streamEnd, ret, listIds, appended, wrote>>

\* conversation_manager.py 157: the generator's first yield.
StreamYieldId(t) ==
    /\ UNCHANGED registryVars
    /\ UNCHANGED requests
    /\ pc[t] = "stream_start"
    /\ inflight' = [inflight EXCEPT ![t] = IdEvent(cid[t])]
    /\ pc' = [pc EXCEPT ![t] = "yielded"]
    /\ UNCHANGED <<storeVars, op, cid, stream, messages, conv, rounds, chunks,
                   delivered, streamEnd, err, ret, listIds, userMsg, loaded,
                   appended, wrote>>

ResumeIntoSave(t) ==
    /\ pc' = [pc EXCEPT ![t] = "save_get"]

\* conversation_manager.py 157-159: asked for the next event, the generator
\* goes on after its yield, into the `async for` over the agent loop.
ResumeAfterYield(t) ==
    /\ pc' = [pc EXCEPT ![t] = "loop_model"]

\* app.py 237: StreamingResponse sends the yielded event to the client and
\* asks the generator for the next one.
ConsumerSend(t) ==
    /\ UNCHANGED registryVars
    /\ UNCHANGED requests
    /\ pc[t] = "yielded"
    /\ delivered' = [delivered EXCEPT ![t] = Append(@, inflight[t])]
    /\ inflight' = [inflight EXCEPT ![t] = None]
    /\ ResumeAfterYield(t)
    /\ UNCHANGED <<storeVars, op, cid, stream, messages, conv, rounds, chunks,
                   streamEnd, err, ret, listIds, userMsg, loaded, appended,
                   wrote>>

OnLoopErrorSaves(t, e) ==
    /\ err' = [err EXCEPT ![t] = e]
    /\ pc' = [pc EXCEPT ![t] = "save_get"]
    /\ UNCHANGED streamEnd

\* conversation_manager.py 158-160 and 174-175: an exception of the agent loop
\* is not caught, so the save is skipped and the exception leaves the call.
OnLoopError(t, e) ==
    /\ err' = [err EXCEPT ![t] = e]
    /\ pc' = [pc EXCEPT ![t] = "failed"]
    /\ streamEnd' = [streamEnd EXCEPT ![t] =
                        IF stream[t] THEN "aborted" ELSE "none"]

\* conversation_manager.py 158-160 and 174-175: the loop has returned (the
\* `async for` is exhausted), the save follows.
OnLoopDone(t) ==
    /\ pc' = [pc EXCEPT ![t] = "save_get"]

\* conversation_manager.py 158-159: a fragment of the agent loop is yielded on.
StreamFragment(t) ==
    /\ UNCHANGED registryVars
    /\ UNCHANGED requests
    /\ pc[t] = "loop_model"
    /\ stream[t]
    /\ rounds[t] < MaxRounds
    /\ chunks[t] < Len(Fragments)
    /\ chunks' = [chunks EXCEPT ![t] = @ + 1]
    /\ inflight' = [inflight EXCEPT ![t] = ChunkEvent(chunks[t] + 1)]
    /\ pc' = [pc EXCEPT ![t] = "yielded"]
    /\ UNCHANGED <<storeVars, op, cid, stream, messages, conv, rounds,
                   delivered, streamEnd, err, ret, listIds, userMsg, loaded,
                   appended, wrote>>

\* conversation_manager.py 157-160: the generator is cancelled where it is
\* suspended; no try/finally around the yields runs the save of line 160.
OnDisconnect(t) ==
    /\ err' = [err EXCEPT ![t] = "CancelledError"]
    /\ pc' = [pc EXCEPT ![t] = "failed"]
    /\ streamEnd' = [streamEnd EXCEPT ![t] = "disconnected"]

\* app.py 237: the client goes away while the stream is being produced, and
\* StreamingResponse cancels the task that iterates the generator. The event
\* the generator had yielded is not sent.
Disconnect(t) ==
    /\ UNCHANGED registryVars
    /\ UNCHANGED requests
    /\ op[t] = "chat"
    /\ stream[t]
    /\ pc[t] \in {"stream_start", "yielded", "loop_model", "loop_tools"}
    /\ OnDisconnect(t)
    /\ UNCHANGED <<storeVars, op, cid, stream, messages, conv, rounds, chunks,
                   inflight, delivered, ret, listIds, userMsg, loaded,
                   appended, wrote>>

\* AWAITING_MODEL -> FAILED: the model call fails.
LoopModelUnavailable(t) ==
    /\ UNCHANGED registryVars
    /\ UNCHANGED requests
    /\ pc[t] = "loop_model"
    /\ rounds[t] < MaxRounds
    /\ OnLoopError(t, "ModelUnavailableError")
    /\ UNCHANGED <<storeVars, op, cid, stream, messages, conv, rounds, chunks,
                   inflight, delivered, ret, listIds, userMsg, loaded,
                   appended, wrote>>

\* AWAITING_MODEL -> FAILED: the round-trip limit is exceeded.
LoopExceeded(t) ==
    /\ UNCHANGED registryVars
    /\ UNCHANGED requests
    /\ pc[t] = "loop_model"
    /\ rounds[t] >= MaxRounds
    /\ OnLoopError(t, "ToolLoopExceededError")
    /\ UNCHANGED <<storeVars, op, cid, stream, messages, conv, rounds, chunks,
                   inflight, delivered, ret, listIds, userMsg, loaded,
                   appended, wrote>>

\* AWAITING_MODEL -> EXECUTING_TOOLS: the model requests tool calls.
LoopToolCalls(t) ==
    /\ UNCHANGED registryVars
    /\ UNCHANGED requests
    /\ pc[t] = "loop_model"
    /\ rounds[t] < MaxRounds
    /\ rounds' = [rounds EXCEPT ![t] = @ + 1]
    /\ LoopAppend(t, AssistantToolCalls)
    /\ pc' = [pc EXCEPT ![t] = "loop_tools"]
    /\ UNCHANGED <<storeVars, op, cid, stream, conv, chunks, inflight,
                   delivered, streamEnd, err, ret, listIds, userMsg, loaded,
                   wrote>>

\* EXECUTING_TOOLS -> AWAITING_MODEL: the tool result (or the description of
\* its failure) is appended.
LoopTools(t) ==
    /\ UNCHANGED registryVars
    /\ UNCHANGED requests
    /\ pc[t] = "loop_tools"
    /\ \E r \in ToolResults : LoopAppend(t, ToolMessage(r))
    /\ pc' = [pc EXCEPT ![t] = "loop_model"]
    /\ UNCHANGED <<storeVars, op, cid, stream, conv, rounds, chunks, inflight,
                   delivered, streamEnd, err, ret, listIds, userMsg, loaded,
                   wrote>>

\* AWAITING_MODEL -> DONE: the model gives its final message.
LoopFinal(t) ==
    /\ UNCHANGED registryVars
    /\ UNCHANGED requests
    /\ pc[t] = "loop_model"
    /\ rounds[t] < MaxRounds
    /\ rounds' = [rounds EXCEPT ![t] = @ + 1]
    /\ LoopAppend(t, AssistantFinal)
    /\ OnLoopDone(t)
    /\ UNCHANGED <<storeVars, op, cid, stream, conv, chunks, inflight,
                   delivered, streamEnd, err, ret, listIds, userMsg, loaded,
                   wrote>>

\* ------------------------------------------------ _save_conversation_messages
\* conversation_manager.py 193-194: redis.get and json.loads (a TypeError on
\* None, which nothing catches).
SaveGet(t) ==
    /\ UNCHANGED registryVars
    /\ UNCHANGED requests
    /\ pc[t] = "save_get"
    /\ LET data == RedisGet(cid[t])
       IN IF data = None
          THEN /\ err' = [err EXCEPT ![t] = "TypeError"]
               /\ pc' = [pc EXCEPT ![t] = "failed"]
               /\ streamEnd' = [streamEnd EXCEPT ![t] =
                                   IF stream[t] THEN "aborted" ELSE "none"]
               /\ UNCHANGED conv
          ELSE /\ conv' = [conv EXCEPT ![t] = data]
               /\ pc' = [pc EXCEPT ![t] = "save_set"]
               /\ UNCHANGED <<err, streamEnd>>
    /\ UNCHANGED <<storeVars, op, cid, stream, messages, rounds, chunks,
                   inflight, delivered, ret, listIds, userMsg, loaded,
                   appended, wrote>>

UpdatedConversationAppend(c, ms, time) ==
    [c EXCEPT !.messages = @ \o DumpAll(ms), !.updated_at = time]

UpdatedConversationOtherId(c, ms, time) ==
    [c EXCEPT !.id = CHOOSE i \in ConvIds : i # c.id,
              !.messages = DumpAll(ms), !.updated_at = time]

UpdatedConversationRestamped(c, ms, time) ==
    [c EXCEPT !.messages = DumpAll(ms), !.created_at = time,
              !.updated_at = time]

UpdatedConversationTurnOnly(c, ms, time) ==
    [c EXCEPT !.messages = DumpAll(Tail(ms)), !.updated_at = time]

\* conversation_manager.py 195-196: the record as it is written back.
UpdatedConversation(c, ms, time) ==
    [c EXCEPT !.messages = DumpAll(ms), !.updated_at = time]

\* conversation_manager.py 195-197 and 209-210: messages and updated_at are
\* replaced in the loaded record, which redis.set writes under its own id.
SaveSet(t) ==
    /\ UNCHANGED registryVars
    /\ UNCHANGED requests
    /\ pc[t] = "save_set"
    /\ now' = now + 1
    /\ LET conversation == UpdatedConversation(conv[t], messages[t], now + 1)
       IN /\ conv' = [conv EXCEPT ![t] = conversation]
          /\ store' = [store EXCEPT ![conversation.id] = conversation]
    /\ wrote' = [wrote EXCEPT ![t] = @ + 1]
    /\ pc' = [pc EXCEPT ![t] = "save_zadd"]
    /\ UNCHANGED <<index, allocated, op, cid, stream, messages, rounds, chunks,
                   inflight, delivered, streamEnd, err, ret, listIds, userMsg,
                   loaded, appended>>

\* conversation_manager.py 160 and 176-179: what follows the save. The
\* generator ends, which closes the stream; the plain call returns its dict.
AfterSave(t) ==
    /\ pc' = [pc EXCEPT ![t] = "done"]
    /\ streamEnd' = [streamEnd EXCEPT ![t] =
                        IF stream[t] THEN "closed" ELSE "none"]
    /\ ret' = [ret EXCEPT ![t] =
                  IF stream[t] THEN None
                  ELSE [kind |-> "chat",
                        content |-> messages[t][Len(messages[t])].content,
                        conversation_id |-> cid[t]]]

\* conversation_manager.py 211: redis.zadd with a fresh timestamp.
SaveZadd(t) ==
    /\ UNCHANGED registryVars
    /\ UNCHANGED requests
    /\ pc[t] = "save_zadd"
    /\ now' = now + 1
    /\ index' = [index EXCEPT ![conv[t].id] = now + 1]
    /\ wrote' = [wrote EXCEPT ![t] = @ + 1]
    /\ AfterSave(t)
    /\ UNCHANGED <<store, allocated, op, cid, stream, messages, conv, rounds,
                   chunks, inflight, delivered, err, listIds, userMsg, loaded,
                   appended>>

\* The handler has answered; the task is free for the next request.
Return(t) ==
    /\ UNCHANGED registryVars
    /\ UNCHANGED requests
    /\ pc[t] \in {"done", "failed"}
    /\ Idle(t)
    /\ UNCHANGED storeVars

Next ==
    \E t \in Tasks :
        \/ CreateSet(t)
        \/ CreateZadd(t)
        \/ GetConversation(t)
        \/ DeleteConversation(t)
        \/ ListBegin(t)
        \/ ListGet(t)
        \/ ChatLoad(t)
        \/ StreamYieldId(t)
        \/ ConsumerSend(t)
        \/ StreamFragment(t)
        \/ Disconnect(t)
        \/ LoopModelUnavailable(t)
        \/ LoopExceeded(t)
        \/ LoopToolCalls(t)
        \/ LoopTools(t)
        \/ LoopFinal(t)
        \/ SaveGet(t)
        \/ SaveSet(t)
        \/ SaveZadd(t)
        \/ Return(t)

Spec == Init /\ [][Next]_vars

\* ------------------------------------------------------------ serial chats
\* A chat on the conversation is between its load and its return.
ChatInFlight(u, id) ==
    /\ op[u] = "chat"
    /\ pc[u] \notin {"done", "failed"}
    /\ cid[u] = id

\* conversation_manager.py 131-142, called by clients that send a chat on a
\* conversation only when no other chat on it is being served.
ChatLoadSerial(t) ==
    /\ ChatLoad(t)
    /\ \A u \in Tasks \ {t} : ~ChatInFlight(u, cid'[t])

NextSerial ==
    \E t \in Tasks :
        \/ CreateSet(t)
        \/ CreateZadd(t)
        \/ GetConversation(t)
        \/ DeleteConversation(t)
        \/ ListBegin(t)
        \/ ListGet(t)
        \/ ChatLoadSerial(t)
        \/ StreamYieldId(t)
        \/ ConsumerSend(t)
        \/ StreamFragment(t)
        \/ Disconnect(t)
        \/ LoopModelUnavailable(t)
        \/ LoopExceeded(t)
        \/ LoopToolCalls(t)
        \/ LoopTools(t)
        \/ LoopFinal(t)
        \/ SaveGet(t)
        \/ SaveSet(t)
        \/ SaveZadd(t)
        \/ Return(t)

SpecSerial == Init /\ [][NextSerial]_vars

\* ================================================================== claims
\* The persisted form of what a first turn holds in memory.
FirstTurnHistory(t) ==
    DumpAll(<<SystemMessage, userMsg[t]>> \o appended[t])

\* The agent loop of the turn has reached DONE.
LoopDone(t) ==
    /\ appended[t] # <<>>
    /\ appended[t][Len(appended[t])] = AssistantFinal

\* C1: the record write of a chat that loaded an empty history stores the
\* system instruction, then the user message, then exactly the messages the
\* agent loop appended, in their order; and that is the history the completed
\* call has persisted.
C1_FirstTurnHistory ==
    [][\A t \in Tasks :
          /\ (op[t] = "chat" /\ loaded[t] = <<>> /\ pc[t] = "save_set"
                /\ pc'[t] = "save_zadd")
             => /\ store'[cid[t]].messages = FirstTurnHistory(t)
                /\ store'[cid[t]].messages[1] = ModelDump(SystemMessage)
                /\ store'[cid[t]].messages[2] = ModelDump(userMsg[t])
          /\ (op[t] = "chat" /\ loaded[t] = <<>> /\ pc[t] = "save_zadd"
                /\ pc'[t] = "done")
             => conv[t].messages = FirstTurnHistory(t)]_vars

\* A first turn with a tool round has completed and its history is stored.
C1_Witness ==
    \E t \in Tasks :
        /\ op[t] = "chat" /\ pc[t] = "done" /\ loaded[t] = <<>>
        /\ Len(appended[t]) = 3
        /\ store[cid[t]] # None
        /\ store[cid[t]].messages = FirstTurnHistory(t)

\* C2: a streaming chat writes to Redis only once the agent loop is done and
\* every event it produced has been sent to the client, and its stream is
\* closed only after the record write and the index bump.
C2_SaveAfterDrain ==
    \A t \in Tasks :
        (op[t] = "chat" /\ stream[t]) =>
            /\ wrote[t] > 0 =>
                /\ LoopDone(t)
                /\ inflight[t] = None
                /\ Len(delivered[t]) = 1 + chunks[t]
            /\ streamEnd[t] = "closed" =>
                /\ wrote[t] = 2
                /\ conv[t].messages = DumpAll(messages[t])

\* A streamed turn with a fragment has been saved and its stream closed.
C2_Witness ==
    \E t \in Tasks :
        /\ op[t] = "chat" /\ stream[t] /\ streamEnd[t] = "closed"
        /\ chunks[t] > 0 /\ wrote[t] = 2

\* C3: in a streaming chat the first event sent is the conversation-id event
\* of the requested conversation; fragments come only after it.
C3_IdEventFirst ==
    \A t \in Tasks :
        (op[t] = "chat" /\ stream[t]) =>
            /\ delivered[t] # <<>> =>
                /\ delivered[t][1] =
                      [type |-> "conversation_id", conversation_id |-> cid[t]]
                /\ \A i \in 2..Len(delivered[t]) :
                      delivered[t][i] = ChunkEvent(i - 1)
            /\ (inflight[t] # None /\ inflight[t] # IdEvent(cid[t]))
                  => delivered[t] # <<>>
            /\ chunks[t] > 0 => (delivered[t] # <<>> \/ inflight[t] # None)

\* The id event and a fragment after it have been sent.
C3_Witness ==
    \E t \in Tasks :
        /\ op[t] = "chat" /\ stream[t]
        /\ Len(delivered[t]) = 2
        /\ delivered[t][2] = ChunkEvent(1)

\* C4 (as claimed): a turn aborted by ToolLoopExceededError has written the
\* partial message sequence, tool exchanges included, to the record.
C4_PartialHistoryPersisted ==
    \A t \in Tasks :
        (op[t] = "chat" /\ pc[t] = "failed"
            /\ err[t] = "ToolLoopExceededError") =>
            /\ wrote[t] = 2
            /\ conv[t] # None
            /\ conv[t].messages = DumpAll(messages[t])

\* C5: a chat that failed with ModelUnavailableError has made no Redis write,
\* returns nothing, and its user message is in no persisted history.
C5_ModelFailureNotPersisted ==
    \A t \in Tasks :
        (op[t] = "chat" /\ err[t] = "ModelUnavailableError") =>
            /\ pc[t] = "failed"
            /\ wrote[t] = 0
            /\ ret[t] = None
            /\ \A c \in ConvIds :
                  store[c] # None =>
                      ModelDump(userMsg[t]) \notin Range(store[c].messages)

\* The model failed after a tool round, in the streaming and in the plain path.
C5_Witness ==
    \E t \in Tasks :
        /\ op[t] = "chat" /\ err[t] = "ModelUnavailableError"
        /\ Len(appended[t]) = 2
        /\ store[cid[t]] # None

\* C6 (as claimed): a streaming chat that fails after its stream has started
\* ends the stream with an error frame, never by cutting it off.
C6_ErrorFrame ==
    \A t \in Tasks :
        (op[t] = "chat" /\ stream[t] /\ pc[t] = "failed"
            /\ delivered[t] # <<>>) =>
            /\ streamEnd[t] # "aborted"
            /\ delivered[t][Len(delivered[t])].type = "error"

\* C7: chat on an id without a record raises the not-found error at once, with
\* stream on or off: no event, no agent loop, no write; a chat on a stored
\* conversation does not raise it.
C7_NotFound ==
    [][\A t \in Tasks :
          (pc[t] = "idle" /\ op'[t] = "chat") =>
              IF store[cid'[t]] = None
              THEN /\ pc'[t] = "failed"
                   /\ err'[t] = "ValueError"
                   /\ messages'[t] = <<>> /\ appended'[t] = <<>>
                   /\ rounds'[t] = 0
                   /\ delivered'[t] = <<>> /\ inflight'[t] = None
                   /\ streamEnd'[t] = "none"
                   /\ wrote'[t] = 0
                   /\ store' = store /\ index' = index
              ELSE err'[t] = "none" /\ pc'[t] # "failed"]_vars

\* A streaming chat on a deleted conversation has failed with not-found.
C7_Witness ==
    \E t \in Tasks :
        /\ op[t] = "chat" /\ stream[t] /\ err[t] = "ValueError"
        /\ pc[t] = "failed"
        /\ index[cid[t]] # NoScore

\* Both chats ran on the same conversation from the same loaded history and
\* both completed.
Raced(t, u) ==
    /\ t # u
    /\ op[t] = "chat" /\ op[u] = "chat"
    /\ pc[t] = "done" /\ pc[u] = "done"
    /\ cid[t] = cid[u]
    /\ loaded[t] = loaded[u]

\* C8: when two chats raced on one conversation, the stored history is the
\* whole list of one of them and holds the user message of that one only.
C8_LastWriteWins ==
    \A t, u \in Tasks :
        (Raced(t, u) /\ store[cid[t]] # None) =>
            /\ store[cid[t]].messages
                  \in {DumpAll(messages[t]), DumpAll(messages[u])}
            /\ (ModelDump(userMsg[t]) \in Range(store[cid[t]].messages))
                  # (ModelDump(userMsg[u]) \in Range(store[cid[t]].messages))

\* Two turns completed, the stored history holds the second writer's only.
C8_Witness ==
    \E t, u \in Tasks :
        /\ Raced(t, u)
        /\ store[cid[t]] # None
        /\ store[cid[t]].messages = DumpAll(messages[u])
        /\ ModelDump(userMsg[t]) \notin Range(store[cid[t]].messages)
        /\ wrote[t] = 2 /\ wrote[u] = 2

\* C9 (as claimed): no name that two clients enumerated is bound in the
\* name-to-client map: startup stops instead of registering it.
C9_DuplicateRejected ==
    \A n \in ToolNames :
        (n \in Range(ums_tools) /\ n \in Range(duckduckgo_tools)) =>
            /\ tool_name_client_map[n] = NoClient
            /\ phase # "serving"

\* C10 (as claimed): every listing is ordered by updated_at, newest first.
C10_ListingSortedByUpdatedAt ==
    \A t \in Tasks :
        (op[t] = "list" /\ pc[t] = "done") =>
            \A i \in 1..(Len(ret[t].value) - 1) :
                ret[t].value[i].updated_at >= ret[t].value[i + 1].updated_at

\* C11 (as claimed): a streaming chat whose client went away before the stream
\* was drained has nevertheless written the turn's messages to the record.
C11_DisconnectStillPersists ==
    \A t \in Tasks :
        (op[t] = "chat" /\ err[t] = "CancelledError" /\ pc[t] = "failed") =>
            /\ wrote[t] = 2
            /\ store[cid[t]] # None
            /\ ModelDump(userMsg[t]) \in Range(store[cid[t]].messages)

\* C12: a delete of a stored conversation returns true and removes the record;
\* a delete that finds no record returns false and changes nothing; while the
\* record is gone, get_conversation returns None for the id and a listing
\* adds no summary for it.
C12_DeleteTwice ==
    [][\A t \in Tasks :
          /\ (pc[t] = "idle" /\ op'[t] = "delete") =>
                IF store[cid'[t]] # None
                THEN /\ ret'[t] = [kind |-> "bool", value |-> TRUE]
                     /\ store'[cid'[t]] = None
                ELSE /\ ret'[t] = [kind |-> "bool", value |-> FALSE]
                     /\ store' = store
          /\ (pc[t] = "idle" /\ op'[t] = "get" /\ store[cid'[t]] = None) =>
                ret'[t].value = None
          /\ (pc[t] = "list_get" /\ store[Head(listIds[t])] = None) =>
                ret'[t] = ret[t]]_vars

\* Two deletes of one conversation have returned, the first true, the second
\* false, and the id is still in the index.
C12_Witness ==
    \E t, u \in Tasks :
        /\ op[t] = "delete" /\ op[u] = "delete"
        /\ pc[t] = "done" /\ pc[u] = "done"
        /\ cid[t] = cid[u]
        /\ ret[t].value = TRUE /\ ret[u].value = FALSE
        /\ index[cid[t]] # NoScore
        /\ store[cid[t]] = None

\* The first n messages of a list.
Take(ms, n) == SubSeq(ms, 1, n)

C14_ListSkipsMissing ==
    [][\A t \in Tasks :
          /\ (pc[t] = "idle" /\ op'[t] = "list") =>
                /\ Range(listIds'[t]) = Indexed
                /\ Len(listIds'[t]) = Cardinality(Indexed)
                /\ ret'[t].value = <<>>
          /\ (pc[t] = "list_get" /\ listIds'[t] # listIds[t]) =>
                LET id == Head(listIds[t])
                IN /\ err'[t] = "none" /\ pc'[t] \in {"list_get", "done"}
                   /\ listIds'[t] = Tail(listIds[t])
                   /\ IF store[id] = None
                      THEN ret'[t].value = ret[t].value
                      ELSE /\ Len(ret'[t].value) = Len(ret[t].value) + 1
                           /\ Take(ret'[t].value, Len(ret[t].value))
                                 = ret[t].value
                           /\ ret'[t].value[Len(ret'[t].value)].id = id
                           /\ ret'[t].value[Len(ret'[t].value)].message_count
                                 = Len(store[id].messages)
          /\ (op'[t] = "list" /\ pc'[t] = "done") =>
                /\ listIds'[t] = <<>>
                /\ \A i, j \in 1..Len(ret'[t].value) :
                      /\ ret'[t].value[i].id \in Indexed
                      /\ i # j => ret'[t].value[i].id # ret'[t].value[j].id]_vars

\* A listing has finished without a summary for an indexed id whose record
\* had been deleted.
C14_Witness ==
    \E t \in Tasks :
        /\ op[t] = "list" /\ pc[t] = "done" /\ err[t] = "none"
        /\ \E id \in Indexed :
              /\ store[id] = None
              /\ \A i \in 1..Len(ret[t].value) : ret[t].value[i].id # id

\* C15: create_conversation takes an id that no stored record and no index
\* entry has, stores under it a record with that id, a title from the request,
\* no messages and created_at = updated_at, then puts the id into the index and
\* returns that record; get_conversation returns the record stored under the
\* id it is asked for, and a listing that starts later reads every indexed id.
C15_CreateConversation ==
    [][\A t \in Tasks :
          /\ (pc[t] = "idle" /\ op'[t] = "create") =>
                LET id == cid'[t]
                IN /\ store[id] = None /\ index[id] = NoScore
                   /\ id \notin allocated
                   /\ store'[id] # None
                   /\ store'[id].id = id
                   /\ store'[id].title \in Titles
                   /\ store'[id].messages = <<>>
                   /\ store'[id].created_at = store'[id].updated_at
                   /\ conv'[t] = store'[id]
                   /\ \A other \in ConvIds \ {id} : store'[other] = store[other]
          /\ (pc[t] = "create_zadd" /\ pc'[t] = "done") =>
                /\ index'[cid[t]] # NoScore
                /\ cid[t] \in Range(ZRevRange')
                /\ ret'[t] = [kind |-> "conversation", value |-> conv[t]]
                /\ store' = store
          /\ (pc[t] = "idle" /\ op'[t] = "get") =>
                ret'[t].value = store[cid'[t]]]_vars

\* A create has returned its record, the record is stored and indexed, and a
\* get_conversation of the id has returned the same record.
C15_Witness ==
    \E t, u \in Tasks :
        /\ op[t] = "create" /\ pc[t] = "done"
        /\ store[cid[t]] = ret[t].value
        /\ index[cid[t]] # NoScore
        /\ op[u] = "get" /\ pc[u] = "done" /\ cid[u] = cid[t]
        /\ ret[u].value = ret[t].value

\* The list `a` is the beginning of the list `b`.
IsPrefix(a, b) == Len(a) <= Len(b) /\ Take(b, Len(a)) = a

C18_SystemPromptOnce ==
    \A id \in ConvIds :
        (store[id] # None /\ store[id].messages # <<>>) =>
            /\ store[id].messages[1] = ModelDump(SystemMessage)
            /\ \A i \in 2..Len(store[id].messages) :
                  store[id].messages[i].role # RoleValue("SYSTEM")

\* Two turns are stored: the history holds two user messages behind one
\* system instruction.
C18_Witness ==
    \E t \in Tasks :
        /\ op[t] = "chat" /\ pc[t] = "done" /\ loaded[t] # <<>>
        /\ store[cid[t]] # None
        /\ store[cid[t]].messages = DumpAll(messages[t])
        /\ Cardinality({i \in 1..Len(store[cid[t]].messages) :
              store[cid[t]].messages[i].role = RoleValue("USER")}) = 2
        /\ store[cid[t]].messages[1] = ModelDump(SystemMessage)

\* C19 (as claimed): once a conversation that was created and indexed has no
\* record any more, because a delete removed it, no later step stores a
\* record under its id again.
C19_DeletedStaysDeleted ==
    [][\A id \in ConvIds :
          (index[id] # NoScore /\ store[id] = None) =>
              store'[id] = None]_vars

\* C20: a record that stays stored keeps its id, title and created_at at
\* every step; the save writes back the record it read with nothing but
\* messages and updated_at replaced; and every stored record is stored under
\* its own id with updated_at not earlier than created_at.
C20_SaveFrame ==
    [][/\ \A id \in ConvIds :
            /\ (store[id] # None /\ store'[id] # None) =>
                  /\ store'[id].id = store[id].id
                  /\ store'[id].title = store[id].title
                  /\ store'[id].created_at = store[id].created_at
            /\ store'[id] # None =>
                  /\ store'[id].id = id
                  /\ store'[id].updated_at >= store'[id].created_at
       /\ \A t \in Tasks :
            /\ (op[t] = "chat" /\ pc[t] = "save_get"
                  /\ pc'[t] = "save_set") =>
                  conv'[t] = store[cid[t]]
            /\ (op[t] = "chat" /\ pc[t] = "save_set"
                  /\ pc'[t] = "save_zadd") =>
                  /\ store'[cid[t]].id = conv[t].id
                  /\ store'[cid[t]].title = conv[t].title
                  /\ store'[cid[t]].created_at = conv[t].created_at]_vars

\* A turn has been saved: the record has the turn's messages and a later
\* updated_at, and the created_at its create gave it.
C20_Witness ==
    \E t \in Tasks :
        /\ op[t] = "chat" /\ pc[t] = "done" /\ wrote[t] = 2
        /\ store[cid[t]] = conv[t]
        /\ store[cid[t]].messages # <<>>
        /\ store[cid[t]].id = cid[t]
        /\ store[cid[t]].created_at < store[cid[t]].updated_at
        /\ store[cid[t]].created_at < index[cid[t]]

\* The ids that have a stored record.
Stored == {id \in ConvIds : store[id] # None}

\* No handler is between its first and its last Redis command.
Quiescent == \A t \in Tasks : pc[t] \in {"idle", "done", "failed"}

\* C21 (as claimed): whenever no operation is in flight, the indexed ids are
\* exactly the ids of the stored records: every record has its index entry
\* and a removed record has left none behind.
C21_IndexMatchesStore ==
    Quiescent => Indexed = Stored

====
